---- MODULE Spec2Model ----
(***************************************************************************)
(* Image workspace of src/App.tsx together with the transformation         *)
(* invokers and the response extractor of src/services/geminiService.ts.   *)
(*                                                                         *)
(* Conventions.  A JavaScript string is a TLA+ string; null and undefined  *)
(* string values are the sentinels Null and Undefined.  A data URL         *)
(* "data:<cat>/<sub>;base64,<payload>" is the token sequence               *)
(* <<"data:", cat, "/", sub, ";base64,", payload>>; a data URL is never    *)
(* the empty string, so the empty sequence NullUrl stands for a null URL.  *)
(* An optional object field is a sequence of length 0 (absent) or 1.       *)
(***************************************************************************)
EXTENDS Bags, FiniteSets, Integers, Sequences, TLC

\* ---- bounds of the model ----
MaxInFlight == 2      \* handleProcess invocations outstanding at once
MaxReaders == 1       \* FileReader reads pending at once

\* ---- JavaScript values ----
Null == "<null>"
Undefined == "<undefined>"
NullUrl == << >>
None == << >>
Some(x) == << x >>
IsSome(o) == Len(o) = 1
Truthy(s) == s \notin {Null, Undefined, ""}
\* a || b on strings
OrElse(a, b) == IF Truthy(a) THEN a ELSE b

\* ---- types.ts ----
AppTab == {"enhance", "id_photo", "restore"}

Q_2K == "2K (Fast)"
Q_4K == "4K (Sharp)"
Q_8K == "8K ULTRA HDR"
EnhancementQuality == {Q_2K, Q_4K, Q_8K}

UPSCALE_ONLY == "Upscale Only"
ENHANCE_RESTORE == "Enhance & Restore"
EnhancementMode == {UPSCALE_ONLY, ENHANCE_RESTORE}

SIZE_2x3 == "2x3 cm"
SIZE_3x4 == "3x4 cm"
SIZE_4x6 == "4x6 cm"
SIZE_35x45 == "3.5x4.5 cm (Passport)"
SIZE_5x5 == "5x5 cm (Visa)"
IDPhotoSize == {SIZE_2x3, SIZE_3x4, SIZE_4x6, SIZE_35x45, SIZE_5x5}

IDPhotoBackground == {"White", "Blue", "Red", "Black", "Gray"}

\* range of a Slider, and of the Sharpening slider
SliderMin == 0
SliderMax == 100
SharpenMax == 200

\* the slider positions explored: both ends and the default
Levels(default) == {SliderMin, default, SliderMax}
SharpenLevels(default) == {SliderMin, default, SharpenMax}

DEFAULT_ENHANCE_SETTINGS ==
  [quality |-> Q_4K, mode |-> ENHANCE_RESTORE, retouchLevel |-> 50,
   sharpenLevel |-> 30, upscaleLevel |-> 25, hyperRealism |-> TRUE,
   colorize |-> TRUE, makeup |-> FALSE]

DEFAULT_ID_SETTINGS ==
  [size |-> SIZE_3x4, backgroundColor |-> "White", quality |-> Q_4K,
   skinSmoothing |-> 60, removeBlemishes |-> TRUE, fixLighting |-> TRUE]

DEFAULT_RESTORE_SETTINGS ==
  [scratchReduction |-> 80, denoiseLevel |-> 50, colorRestoration |-> TRUE,
   faceRestoration |-> TRUE, sharpenArtifacts |-> TRUE, quality |-> Q_4K]

\* the values of each settings type
EditorSettings ==
  [quality : EnhancementQuality, mode : EnhancementMode,
   retouchLevel : Levels(DEFAULT_ENHANCE_SETTINGS.retouchLevel),
   sharpenLevel : SharpenLevels(DEFAULT_ENHANCE_SETTINGS.sharpenLevel),
   upscaleLevel : Levels(DEFAULT_ENHANCE_SETTINGS.upscaleLevel),
   hyperRealism : BOOLEAN, colorize : BOOLEAN, makeup : BOOLEAN]

IDPhotoSettings ==
  [size : IDPhotoSize, backgroundColor : IDPhotoBackground,
   quality : EnhancementQuality,
   skinSmoothing : Levels(DEFAULT_ID_SETTINGS.skinSmoothing),
   removeBlemishes : BOOLEAN, fixLighting : BOOLEAN]

RestorationSettings ==
  [scratchReduction : Levels(DEFAULT_RESTORE_SETTINGS.scratchReduction),
   denoiseLevel : Levels(DEFAULT_RESTORE_SETTINGS.denoiseLevel),
   colorRestoration : BOOLEAN, faceRestoration : BOOLEAN,
   sharpenArtifacts : BOOLEAN, quality : EnhancementQuality]

\* ---- messages ----
MsgInvalidFile == "Please upload a valid image file."
MsgApiKeyMissing == "API Key is missing. Please check your environment configuration."
MsgNoImage == "No image data returned from Gemini."
MsgEnhanceFailed == "Failed to process image with AI"
MsgIDPhotoFailed == "Failed to create ID photo"
MsgRestoreFailed == "Failed to restore photo"
MsgProcessFailed == "Failed to process image."
\* message of the TypeError raised by reading a property of undefined
\* (the wording is the engine's; it is never empty)
MsgTypeError == "Cannot read properties of undefined"

\* ---- inputs: files offered to the picker or dropped ----
MimePng == [cat |-> "image", sub |-> "png"]
MimeSvg == [cat |-> "image", sub |-> "svg+xml"]
MimeText == [cat |-> "text", sub |-> "plain"]
Files ==
  { [type |-> MimePng, bytes |-> <<65>>],
    [type |-> MimeSvg, bytes |-> <<66>>],
    [type |-> MimeText, bytes |-> <<65>>] }

\* file.type.startsWith('image/')
StartsWithImage(type) == type.cat = "image"

\* base64 text of a one-byte content (FileReader.readAsDataURL)
Base64(bytes) ==
  CASE bytes = <<65>> -> "QQ=="
    [] bytes = <<66>> -> "Qg=="

\* e.target.result of a finished readAsDataURL
DataUrl(file) ==
  <<"data:", file.type.cat, "/", file.type.sub, ";base64,", Base64(file.bytes)>>

\* ---- inputs: what the external generateContent call can answer ----
TextPart == [text |-> Some("here is your image"), inlineData |-> None]
ImagePart(d) == [text |-> None, inlineData |-> Some([data |-> d, mimeType |-> "image/jpeg"])]
WithParts(ps) == [candidates |-> Some(<< [content |-> Some([parts |-> Some(ps)])] >>)]
Responses ==
  { [candidates |-> None],
    [candidates |-> Some(<< >>)],
    [candidates |-> Some(<< [content |-> None] >>)],
    [candidates |-> Some(<< [content |-> Some([parts |-> None])] >>)],
    WithParts(<< >>),
    WithParts(<< TextPart >>),
    WithParts(<< ImagePart("") >>),
    WithParts(<< ImagePart("AAAA") >>),
    WithParts(<< TextPart, ImagePart("BBBB"), ImagePart("AAAA") >>) }
\* errors the call can be rejected with
Rejections ==
  { [message |-> "Quota exceeded"], [message |-> ""], [message |-> Undefined] }
\* values of process.env.API_KEY
ApiKeys == {Undefined, "", "key"}

NoResponse == [candidates |-> None]
NoError == [message |-> Undefined]

VARIABLES
  imgState,    \* ImageState: originalUrl, processedUrl, isProcessing, error
  activeTab,   \* AppTab
  apiKey,      \* process.env.API_KEY
  readers,     \* bag of files whose readAsDataURL has not fired onload yet
  inflight,    \* bag of handleProcess invocations suspended at their await
  prev,        \* the ImageState the last handler or callback found
  lastOp,      \* the handler or callback that ran last
  enhanceSettings,  \* EditorSettings
  idSettings,       \* IDPhotoSettings
  restoreSettings,  \* RestorationSettings
  resultTab,   \* the tab of the invocation whose result processedUrl holds
  download,    \* link.download of the last file saved
  resumed      \* the invocation whose continuation ran in the last step, if one did

settingsVars == <<enhanceSettings, idSettings, restoreSettings>>
vars == <<imgState, activeTab, apiKey, readers, inflight, prev, lastOp,
          enhanceSettings, idSettings, restoreSettings, resultTab, download,
          resumed>>

NoDownload == << >>

EmptyImgState ==
  [originalUrl |-> NullUrl, processedUrl |-> NullUrl,
   isProcessing |-> FALSE, error |-> Null]

Init ==
  /\ imgState = EmptyImgState
  /\ activeTab = "enhance"
  /\ apiKey \in ApiKeys
  /\ readers = EmptyBag
  /\ inflight = EmptyBag
  /\ prev = EmptyImgState
  /\ lastOp = "init"
  /\ enhanceSettings = DEFAULT_ENHANCE_SETTINGS
  /\ idSettings = DEFAULT_ID_SETTINGS
  /\ restoreSettings = DEFAULT_RESTORE_SETTINGS
  /\ resultTab = Null
  /\ download = NoDownload
  /\ resumed = None

\* ---- geminiService.ts ----
Return(v) == [threw |-> FALSE, value |-> v, message |-> Undefined]
Throw(m) == [threw |-> TRUE, value |-> NullUrl, message |-> m]

\* variant: only an undefined key is treated as missing
getApiKey_undefinedOnly ==
  IF apiKey = Undefined THEN Throw(MsgApiKeyMissing) ELSE Return(NullUrl)

getApiKey == IF ~Truthy(apiKey) THEN Throw(MsgApiKeyMissing) ELSE Return(NullUrl)

\* index of the first part with inlineData && inlineData.data, 0 if none
RECURSIVE FirstImagePart(_, _)
FirstImagePart(parts, i) ==
  IF i > Len(parts) THEN 0
  ELSE IF IsSome(parts[i].inlineData) /\ Truthy(parts[i].inlineData[1].data) THEN i
  ELSE FirstImagePart(parts, i + 1)

\* variant: the last matching part wins
extractImageFromResponse_last(response) ==
  IF ~IsSome(response.candidates) THEN Throw(MsgNoImage)
  ELSE LET cands == response.candidates[1] IN
    IF Len(cands) = 0 THEN Throw(MsgTypeError)
    ELSE IF ~IsSome(cands[1].content) THEN Throw(MsgTypeError)
    ELSE IF ~IsSome(cands[1].content[1].parts) THEN Throw(MsgNoImage)
    ELSE LET parts == cands[1].content[1].parts[1]
             found == {i \in DOMAIN parts :
                         IsSome(parts[i].inlineData) /\ Truthy(parts[i].inlineData[1].data)} IN
      IF found = {} THEN Throw(MsgNoImage)
      ELSE LET i == CHOOSE j \in found : \A k \in found : k <= j IN
        Return(<<"data:", "image", "/", "png", ";base64,", parts[i].inlineData[1].data>>)

extractImageFromResponse(response) ==
  IF ~IsSome(response.candidates) THEN Throw(MsgNoImage)
  ELSE LET cands == response.candidates[1] IN
    IF Len(cands) = 0 THEN Throw(MsgTypeError)
    ELSE IF ~IsSome(cands[1].content) THEN Throw(MsgTypeError)
    ELSE IF ~IsSome(cands[1].content[1].parts) THEN Throw(MsgNoImage)
    ELSE LET parts == cands[1].content[1].parts[1]
             i == FirstImagePart(parts, 1) IN
      IF i = 0 THEN Throw(MsgNoImage)
      ELSE Return(<<"data:", "image", "/", "png", ";base64,", parts[i].inlineData[1].data>>)

\* the characters of the media subtypes that occur
SubtypeChars(sub) ==
  CASE sub = "png" -> <<"p", "n", "g">>
    [] sub = "jpeg" -> <<"j", "p", "e", "g">>
    [] sub = "webp" -> <<"w", "e", "b", "p">>
    [] sub = "gif" -> <<"g", "i", "f">>
    [] sub = "bmp" -> <<"b", "m", "p">>
    [] sub = "svg+xml" -> <<"s", "v", "g", "+", "x", "m", "l">>
    [] sub = "x-icon" -> <<"x", "-", "i", "c", "o", "n">>
    [] sub = "plain" -> <<"p", "l", "a", "i", "n">>

\* the character class [a-zA-Z+]
LetterOrPlus ==
  {"a", "b", "c", "d", "e", "f", "g", "h", "i", "j", "k", "l", "m", "n", "o",
   "p", "q", "r", "s", "t", "u", "v", "w", "x", "y", "z",
   "A", "B", "C", "D", "E", "F", "G", "H", "I", "J", "K", "L", "M", "N", "O",
   "P", "Q", "R", "S", "T", "U", "V", "W", "X", "Y", "Z", "+"}

\* the data URL starts with data:<cat>/<sub>;base64,
HasHeader(dataUrl) ==
  /\ Len(dataUrl) >= 5
  /\ dataUrl[1] = "data:"
  /\ dataUrl[3] = "/"
  /\ dataUrl[5] = ";base64,"

\* variant: the header is stripped for jpeg only
cleanBase64_jpegOnly(dataUrl) ==
  IF HasHeader(dataUrl) /\ dataUrl[2] = "image" /\ dataUrl[4] \in {"jpeg", "jpg"}
  THEN SubSeq(dataUrl, 6, Len(dataUrl))
  ELSE dataUrl

\* dataUrl.replace(/^data:image\/(png|jpeg|jpg|webp);base64,/, "")
cleanBase64(dataUrl) ==
  IF /\ HasHeader(dataUrl)
     /\ dataUrl[2] = "image"
     /\ dataUrl[4] \in {"png", "jpeg", "jpg", "webp"}
  THEN SubSeq(dataUrl, 6, Len(dataUrl))
  ELSE dataUrl

\* dataUrl.match(/^data:(image\/[a-zA-Z+]+);base64,/), else 'image/jpeg'
getMimeType(dataUrl) ==
  IF /\ HasHeader(dataUrl)
     /\ dataUrl[2] = "image"
     /\ Len(SubtypeChars(dataUrl[4])) >= 1
     /\ \A i \in DOMAIN SubtypeChars(dataUrl[4]) :
          SubtypeChars(dataUrl[4])[i] \in LetterOrPlus
  THEN dataUrl[2] \o "/" \o dataUrl[4]
  ELSE "image/jpeg"

\* ---- the instruction of each mode: one element per appended piece ----
\* variant: the clause is appended whatever the flag
Optional_always(flag, clause) == << clause >>

Optional(flag, clause) == IF flag THEN << clause >> ELSE << >>

ModelPro == "gemini-3-pro-image-preview"
ModelFlash == "gemini-2.5-flash-image"

EnhanceOpening == "Edit this image to improve its quality significantly."
RestoreDetailsClause == " Restore facial details, fix artifacts, and improve lighting."
HyperRealismClause == " Maintain realistic skin texture (hyper-realism)."
MakeupClause == " Apply very subtle, natural enhancement to facial features."
ColorizeClause == " Ensure colors are vibrant and corrected."
UpscaleOnlyClause ==
  " Focus strictly on upscaling and sharpening the image details without altering facial features."
QualityClause(quality) == " The target quality should perceive as " \o quality \o "."
SharpenClause(level) == " Sharpening intensity: " \o ToString(level) \o "%."
ResolutionClause == " Return the processed image in high resolution."

\* variant: every tier but the fastest selects the higher-capability model
IsPro_above2K(settings) == settings.quality # Q_2K

IsPro(settings) == settings.quality = Q_8K

\* variant: the hyper-realism and colorize clauses are appended in either mode
EnhancePrompt_flagsAlways(settings) ==
  << EnhanceOpening >>
  \o (IF settings.mode = ENHANCE_RESTORE
       THEN << RestoreDetailsClause >>
       ELSE << UpscaleOnlyClause >>)
  \o Optional(settings.hyperRealism, HyperRealismClause)
  \o Optional(settings.makeup, MakeupClause)
  \o Optional(settings.colorize, ColorizeClause)
  \o << QualityClause(settings.quality), SharpenClause(settings.sharpenLevel),
        ResolutionClause >>

EnhancePrompt(settings) ==
  << EnhanceOpening >>
  \o (IF settings.mode = ENHANCE_RESTORE
       THEN << RestoreDetailsClause >>
            \o Optional(settings.hyperRealism, HyperRealismClause)
            \o Optional(settings.makeup, MakeupClause)
            \o Optional(settings.colorize, ColorizeClause)
       ELSE << UpscaleOnlyClause >>)
  \o << QualityClause(settings.quality), SharpenClause(settings.sharpenLevel),
        ResolutionClause >>

NoConfig == [imageSize |-> Undefined, aspectRatio |-> Undefined]

EnhanceConfig(settings) ==
  IF IsPro(settings) THEN [NoConfig EXCEPT !.imageSize = "4K"] ELSE NoConfig

EnhanceRequest(imageBase64, settings) ==
  [model |-> IF IsPro(settings) THEN ModelPro ELSE ModelFlash,
   data |-> cleanBase64(imageBase64),
   mimeType |-> getMimeType(imageBase64),
   text |-> EnhancePrompt(settings),
   config |-> EnhanceConfig(settings)]

bgMap(backgroundColor) ==
  CASE backgroundColor = "White" -> "pure white (#FFFFFF)"
    [] backgroundColor = "Blue" -> "standard ID photo blue (#2196F3)"
    [] backgroundColor = "Red" -> "standard ID photo red (#D32F2F)"
    [] backgroundColor = "Black" -> "solid black"
    [] backgroundColor = "Gray" -> "professional gray"

sizeMap(size) ==
  CASE size = SIZE_2x3 -> "vertical ID photo (2cm x 3cm ratio)"
    [] size = SIZE_3x4 -> "standard vertical ID photo (3cm x 4cm ratio)"
    [] size = SIZE_4x6 -> "large vertical ID photo (4cm x 6cm ratio)"
    [] size = SIZE_35x45 -> "passport photo (3.5cm x 4.5cm ratio)"
    [] size = SIZE_5x5 -> "square visa photo (5cm x 5cm ratio)"

\* variant: the large format is treated as square as well
apiAspectRatio_4x6Square(settings) ==
  IF settings.size \in {SIZE_5x5, SIZE_4x6} THEN "1:1" ELSE "3:4"

apiAspectRatio(settings) == IF settings.size = SIZE_5x5 THEN "1:1" ELSE "3:4"

IDOpening ==
  "Strictly transform this image into a professional official ID/Passport photo. "
IDCropClause(ratio) ==
  "1. CROP & COMPOSITION: Crop the image to a "
  \o (IF ratio = "3:4" THEN "Vertical Portrait" ELSE "Square") \o " format. "
IDCenteredClause == "The face must be perfectly CENTERED and facing forward. "
IDHeadClause ==
  "The head (from top of hair to chin) must occupy 70% to 80% of the vertical height. "
IDShouldersClause ==
  "Include the shoulders. Both ears should be visible if possible. Eyes must be level. "
IDBackgroundClause(description) ==
  "2. BACKGROUND: Remove the original background completely. Replace with a clean, flat "
  \o description \o " background. No shadows on the background. "
IDEnhancementHeader == "3. ENHANCEMENT: "
IDBlemishesClause == "Remove acne, moles, spots, and scratches from the face. "
IDSmoothClause(level) ==
  "Smooth skin texture naturally (Intensity: " \o ToString(level) \o "%). "
IDLightingClause ==
  "Fix lighting to be even and soft (studio lighting), removing harsh shadows on the face. "
IDOutputClause(description) ==
  "4. OUTPUT: High resolution, sharp focus. Intended for printing at " \o description \o "."

IDPhotoPrompt(settings) ==
  << IDOpening, IDCropClause(apiAspectRatio(settings)), IDCenteredClause,
     IDHeadClause, IDShouldersClause,
     IDBackgroundClause(bgMap(settings.backgroundColor)), IDEnhancementHeader >>
  \o Optional(settings.removeBlemishes, IDBlemishesClause)
  \o << IDSmoothClause(settings.skinSmoothing) >>
  \o Optional(settings.fixLighting, IDLightingClause)
  \o << IDOutputClause(sizeMap(settings.size)) >>

\* variant: the ID-photo call picks its model by the quality tier
IDPhotoRequest_byQuality(imageBase64, settings) ==
  [model |-> IF settings.quality = Q_8K THEN ModelPro ELSE ModelFlash,
   data |-> cleanBase64(imageBase64),
   mimeType |-> getMimeType(imageBase64),
   text |-> IDPhotoPrompt(settings),
   config |-> [NoConfig EXCEPT !.aspectRatio = apiAspectRatio(settings)]]

IDPhotoRequest(imageBase64, settings) ==
  [model |-> ModelFlash,
   data |-> cleanBase64(imageBase64),
   mimeType |-> getMimeType(imageBase64),
   text |-> IDPhotoPrompt(settings),
   config |-> [NoConfig EXCEPT !.aspectRatio = apiAspectRatio(settings)]]

RestoreOpening ==
  "Act as a professional photo restoration expert. Restore this old, damaged, or blurry photo. "
DamageClause(level) ==
  "1. DAMAGE REPAIR: Remove scratches, cracks, tears, dust spots, and fold marks. (Intensity: "
  \o ToString(level) \o "%). "
DetailClause ==
  "2. DETAIL RECOVERY: Deblur the image and sharpen details specifically on clothing and background textures. "
FaceClause ==
  "Use advanced facial restoration to recover facial features, eyes, and skin texture. CRITICAL: Do NOT alter the person's identity or facial structure. Keep original angles and features authentic. "
ColorizationClause ==
  "3. COLORIZATION: If the photo is B&W or sepia, strictly colorize it with natural, historically accurate colors. If it's color but faded, restore vibrancy. "
KeepColorClause ==
  "3. COLOR: Keep the original color profile (B&W or Sepia) but improve contrast and remove yellow aging stains. "
RestoreQualityClause(level) ==
  "4. QUALITY: High fidelity restoration. Reduce noise level by " \o ToString(level) \o "%."

\* variant: the keep-color clause is appended whatever the flag
RestorePrompt_noElse(settings) ==
  << RestoreOpening, DamageClause(settings.scratchReduction), DetailClause >>
  \o Optional(settings.faceRestoration, FaceClause)
  \o Optional(settings.colorRestoration, ColorizationClause)
  \o << KeepColorClause >>
  \o << RestoreQualityClause(settings.denoiseLevel) >>

RestorePrompt(settings) ==
  << RestoreOpening, DamageClause(settings.scratchReduction), DetailClause >>
  \o Optional(settings.faceRestoration, FaceClause)
  \o (IF settings.colorRestoration
       THEN << ColorizationClause >>
       ELSE << KeepColorClause >>)
  \o << RestoreQualityClause(settings.denoiseLevel) >>

\* variant: the model follows the quality tier as in enhance mode
RestoreModel_byQuality(settings) ==
  IF settings.quality = Q_8K THEN ModelPro ELSE ModelFlash

RestoreModel(settings) == ModelPro

RestoreRequest(imageBase64, settings) ==
  [model |-> RestoreModel(settings),
   data |-> cleanBase64(imageBase64),
   mimeType |-> getMimeType(imageBase64),
   text |-> RestorePrompt(settings),
   config |-> [NoConfig EXCEPT !.imageSize = "4K"]]

\* the request of an invocation that made no call
NoRequest ==
  [model |-> Undefined, data |-> << >>, mimeType |-> Undefined,
   text |-> << >>, config |-> NoConfig]

\* variant: every invoker falls back to the enhance message
GenericMessage_same(tab) == MsgEnhanceFailed

\* the generic message of each invoker's catch block
GenericMessage(tab) ==
  CASE tab = "enhance" -> MsgEnhanceFailed
    [] tab = "id_photo" -> MsgIDPhotoFailed
    [] tab = "restore" -> MsgRestoreFailed

\* try { await generateContent; return extract } catch (error) { throw new Error(...) }
InvokerFinish(tab, settle) ==
  LET body == IF settle.kind = "rejected" THEN Throw(settle.error.message)
              ELSE extractImageFromResponse(settle.response) IN
  IF body.threw THEN Throw(OrElse(body.message, GenericMessage(tab))) ELSE body

\* outcome of the invoker's promise for an invocation whose await has settled
InvokerOutcome(r) ==
  IF r.settle.kind = "nokey" THEN Throw(r.settle.error.message)
  ELSE InvokerFinish(r.tab, r.settle)

\* the invoker up to its first suspension: getApiKey, then one generateContent
InvokerStart(tab, img) ==
  IF getApiKey.threw
  THEN [tab |-> tab, img |-> img, pc |-> "resume", calls |-> 0,
        request |-> NoRequest,
        settle |-> [kind |-> "nokey", response |-> NoResponse,
                    error |-> [message |-> getApiKey.message]]]
  ELSE [tab |-> tab, img |-> img, pc |-> "await", calls |-> 1,
        request |-> CASE tab = "enhance" -> EnhanceRequest(img, enhanceSettings)
                      [] tab = "id_photo" -> IDPhotoRequest(img, idSettings)
                      [] tab = "restore" -> RestoreRequest(img, restoreSettings),
        settle |-> [kind |-> "pending", response |-> NoResponse, error |-> NoError]]

\* ---- App.tsx ----
\* a settled promise runs its continuation before any other event is handled
NoMicrotask == \A r \in BagToSet(inflight) : r.pc # "resume"

\* variant: the error is set on a fresh state instead of the previous one
InvalidFileState_fresh(p) == [EmptyImgState EXCEPT !.error = MsgInvalidFile]

InvalidFileState(p) == [p EXCEPT !.error = MsgInvalidFile]

processFile(file) ==
  IF ~StartsWithImage(file.type)
  THEN /\ imgState' = InvalidFileState(imgState)
       /\ readers' = readers
       /\ lastOp' = "invalidFile"
  ELSE /\ BagCardinality(readers) < MaxReaders
       /\ readers' = readers (+) SetToBag({file})
       /\ imgState' = imgState
       /\ lastOp' = "readAsDataURL"

\* the hidden file input exists only in the empty state
handleFileChange ==
  /\ NoMicrotask
  /\ imgState.originalUrl = NullUrl
  /\ \E file \in Files : processFile(file)
  /\ prev' = imgState
  /\ UNCHANGED <<activeTab, apiKey, inflight, settingsVars, resultTab, download>>
  /\ resumed' = None

\* the drop zone is always mounted
handleDrop ==
  /\ NoMicrotask
  /\ \E file \in Files : processFile(file)
  /\ prev' = imgState
  /\ UNCHANGED <<activeTab, apiKey, inflight, settingsVars, resultTab, download>>
  /\ resumed' = None

\* variant: onload only replaces the original
LoadedState_merge(url) == [imgState EXCEPT !.originalUrl = url]

LoadedState(url) ==
  [originalUrl |-> url, processedUrl |-> NullUrl,
   isProcessing |-> FALSE, error |-> Null]

readerOnload ==
  /\ NoMicrotask
  /\ \E file \in BagToSet(readers) :
       /\ readers' = readers (-) SetToBag({file})
       /\ imgState' = LoadedState(DataUrl(file))
  /\ prev' = imgState
  /\ lastOp' = "onload"
  /\ resultTab' = Null
  /\ UNCHANGED <<activeTab, apiKey, inflight, settingsVars, download>>
  /\ resumed' = None

\* the Process button is rendered when there is no result, and enabled
\* when there is an original and no request is flagged
ProcessEnabled ==
  /\ imgState.processedUrl = NullUrl
  /\ imgState.originalUrl # NullUrl
  /\ ~imgState.isProcessing

ProcessStartState(p) == [p EXCEPT !.isProcessing = TRUE, !.error = Null]

handleProcess ==
  /\ NoMicrotask
  /\ ProcessEnabled
  /\ imgState.originalUrl # NullUrl
  /\ BagCardinality(inflight) < MaxInFlight
  /\ imgState' = ProcessStartState(imgState)
  /\ inflight' = inflight (+) SetToBag({InvokerStart(activeTab, imgState.originalUrl)})
  /\ prev' = imgState
  /\ lastOp' = "handleProcess"
  /\ UNCHANGED <<activeTab, apiKey, readers, settingsVars, resultTab, download>>
  /\ resumed' = None

\* the external call settles: resolved with a response
callResolves ==
  /\ NoMicrotask
  /\ \E r \in BagToSet(inflight), response \in Responses :
       /\ r.pc = "await"
       /\ inflight' = (inflight (-) SetToBag({r})) (+) SetToBag({
            [r EXCEPT !.pc = "resume",
                      !.settle = [kind |-> "resolved", response |-> response,
                                  error |-> NoError]]})
  /\ prev' = imgState
  /\ lastOp' = "callResolves"
  /\ UNCHANGED <<imgState, activeTab, apiKey, readers, settingsVars, resultTab, download>>
  /\ resumed' = None

\* the external call settles: rejected with an error
callRejects ==
  /\ NoMicrotask
  /\ \E r \in BagToSet(inflight), error \in Rejections :
       /\ r.pc = "await"
       /\ inflight' = (inflight (-) SetToBag({r})) (+) SetToBag({
            [r EXCEPT !.pc = "resume",
                      !.settle = [kind |-> "rejected", response |-> NoResponse,
                                  error |-> error]]})
  /\ prev' = imgState
  /\ lastOp' = "callRejects"
  /\ UNCHANGED <<imgState, activeTab, apiKey, readers, settingsVars, resultTab, download>>
  /\ resumed' = None

\* variant: the success branch leaves the processing flag set
SuccessState_flagLeft(p, result) == [p EXCEPT !.processedUrl = result]

SuccessState(p, result) == [p EXCEPT !.processedUrl = result, !.isProcessing = FALSE]

\* variant: the catch block leaves the processing flag set
FailureState_flagLeft(p, message) ==
  [p EXCEPT !.error = OrElse(message, MsgProcessFailed)]

FailureState(p, message) ==
  [p EXCEPT !.isProcessing = FALSE, !.error = OrElse(message, MsgProcessFailed)]

\* variant: a failed call is issued again
AfterResume_retry(bag, r) ==
  IF r.settle.kind # "nokey" /\ InvokerOutcome(r).threw
  THEN (bag (-) SetToBag({r})) (+) SetToBag({
         [r EXCEPT !.pc = "await", !.calls = @ + 1,
                   !.settle = [kind |-> "pending", response |-> NoResponse,
                               error |-> NoError]]})
  ELSE bag (-) SetToBag({r})

\* what is left of the invocation after its continuation ran
AfterResume(bag, r) == bag (-) SetToBag({r})

\* handleProcess after its await: the rest of the invoker, then try or catch
handleProcessResume ==
  /\ \E r \in BagToSet(inflight) :
       /\ r.pc = "resume"
       /\ LET out == InvokerOutcome(r) IN
            IF out.threw
            THEN /\ imgState' = FailureState(imgState, out.message)
                 /\ resultTab' = resultTab
                 /\ lastOp' = "processFailed"
            ELSE /\ imgState' = SuccessState(imgState, out.value)
                 /\ resultTab' = r.tab
                 /\ lastOp' = "processSucceeded"
       /\ inflight' = AfterResume(inflight, r)
       /\ resumed' = Some(r)
  /\ prev' = imgState
  /\ UNCHANGED <<activeTab, apiKey, readers, settingsVars, download>>

\* the Clear button is rendered when there is an original
resetImage ==
  /\ NoMicrotask
  /\ imgState.originalUrl # NullUrl
  /\ imgState' = EmptyImgState
  /\ prev' = imgState
  /\ lastOp' = "resetImage"
  /\ resultTab' = Null
  /\ UNCHANGED <<activeTab, apiKey, readers, inflight, settingsVars, download>>
  /\ resumed' = None

\* variant: Try Again keeps the result
TryAgainState_keep(p) == p

TryAgainState(p) == [p EXCEPT !.processedUrl = NullUrl]

\* the Try Again button is rendered when there is a result
tryAgain ==
  /\ NoMicrotask
  /\ imgState.processedUrl # NullUrl
  /\ imgState' = TryAgainState(imgState)
  /\ prev' = imgState
  /\ lastOp' = "tryAgain"
  /\ resultTab' = Null
  /\ UNCHANGED <<activeTab, apiKey, readers, inflight, settingsVars, download>>
  /\ resumed' = None

setActiveTab ==
  /\ NoMicrotask
  /\ \E tab \in AppTab : activeTab' = tab
  /\ prev' = imgState
  /\ lastOp' = "setActiveTab"
  /\ UNCHANGED <<imgState, apiKey, readers, inflight, settingsVars, resultTab, download>>
  /\ resumed' = None

\* the prefix handleDownload picks
DownloadPrefix ==
  IF activeTab = "restore" THEN "Restored_Gemini3Pro"
  ELSE IF activeTab = "id_photo" THEN "ID_Photo"
  ELSE "Enhanced"

\* `LongRau_${prefix}_${Date.now()}.png`
DownloadName(prefix) == <<"LongRau_", prefix, "_", "Date.now()", ".png">>

\* the Download button is rendered when there is a result
handleDownload ==
  /\ NoMicrotask
  /\ imgState.processedUrl # NullUrl
  /\ download' = DownloadName(DownloadPrefix)
  /\ prev' = imgState
  /\ lastOp' = "handleDownload"
  /\ UNCHANGED <<imgState, activeTab, apiKey, readers, inflight, settingsVars, resultTab>>
  /\ resumed' = None

Next ==
  \/ handleFileChange
  \/ handleDrop
  \/ readerOnload
  \/ handleProcess
  \/ callResolves
  \/ callRejects
  \/ handleProcessResume
  \/ resetImage
  \/ tryAgain
  \/ setActiveTab

Spec == Init /\ [][Next]_vars

\* ---- the workspace when every external call settles ----
\* the files picked or dropped in this specification: an image and a file
\* that is not one
LiveFiles == {f \in Files : f.type \in {MimePng, MimeText}}
LoadsWithin(bag) == \A f \in BagToSet(bag) : f \in LiveFiles

\* the data URLs a load can put into originalUrl
LoadableUrls == {DataUrl(file) : file \in {f \in LiveFiles : StartsWithImage(f.type)}}

\* what the external call answers in this specification: an image, a
\* response without one, or a rejection
LiveResponses == {WithParts(<< ImagePart("AAAA") >>), WithParts(<< TextPart >>)}
LiveRejections == {[message |-> "Quota exceeded"]}

SettledWithin(bag) ==
  \A r \in BagToSet(bag) :
    /\ r.settle.kind = "resolved" => r.settle.response \in LiveResponses
    /\ r.settle.kind = "rejected" => r.settle.error \in LiveRejections

\* the external call of an invocation of this tab on this image settles
callSettles(tab, img) ==
  /\ \E r \in BagToSet(inflight) : r.pc = "await" /\ r.tab = tab /\ r.img = img
  /\ callResolves \/ callRejects
  /\ SettledWithin(inflight')
  /\ \E r \in BagToSet(inflight) :
       /\ r.pc = "await"
       /\ r.tab = tab
       /\ r.img = img
       /\ CopiesIn(r, inflight') < CopiesIn(r, inflight)

\* generateContent's promise settles whatever else happens meanwhile, and a
\* settled promise's continuation is run by the event loop
Fairness ==
  /\ \A tab \in AppTab : \A img \in LoadableUrls : SF_vars(callSettles(tab, img))
  /\ WF_vars(handleProcessResume)

LiveNext ==
  \/ handleFileChange /\ LoadsWithin(readers')
  \/ handleDrop /\ LoadsWithin(readers')
  \/ readerOnload
  \/ handleProcess
  \/ callResolves /\ SettledWithin(inflight')
  \/ callRejects /\ SettledWithin(inflight')
  \/ handleProcessResume
  \/ resetImage
  \/ tryAgain
  \/ setActiveTab

LiveSpec == Init /\ [][LiveNext]_vars /\ Fairness

\* ---- processing, switching tabs and saving, on a loaded image ----
DownloadInit ==
  /\ \E file \in Files :
       /\ StartsWithImage(file.type)
       /\ imgState = LoadedState(DataUrl(file))
  /\ activeTab = "enhance"
  /\ enhanceSettings = DEFAULT_ENHANCE_SETTINGS
  /\ idSettings = DEFAULT_ID_SETTINGS
  /\ restoreSettings = DEFAULT_RESTORE_SETTINGS
  /\ apiKey = "key"
  /\ readers = EmptyBag
  /\ inflight = EmptyBag
  /\ prev = EmptyImgState
  /\ lastOp = "onload"
  /\ resultTab = Null
  /\ download = NoDownload
  /\ resumed = None

DownloadNext ==
  \/ handleProcess
  \/ callResolves
  \/ callRejects
  \/ handleProcessResume
  \/ tryAgain
  \/ setActiveTab
  \/ handleDownload

DownloadSpec == DownloadInit /\ [][DownloadNext]_vars

\* ---- the invokers on every settings value and every accepted image ----
MimeJpeg == [cat |-> "image", sub |-> "jpeg"]
MimeWebp == [cat |-> "image", sub |-> "webp"]
MimeGif == [cat |-> "image", sub |-> "gif"]
MimeBmp == [cat |-> "image", sub |-> "bmp"]
MimeIcon == [cat |-> "image", sub |-> "x-icon"]
ImageFiles ==
  { [type |-> t, bytes |-> <<65>>] :
      t \in {MimePng, MimeJpeg, MimeWebp, MimeGif, MimeBmp, MimeSvg, MimeIcon} }

\* an image is loaded, one tab is active and its controls are in any position
PromptInit ==
  /\ \E file \in ImageFiles :
       /\ StartsWithImage(file.type)
       /\ imgState = LoadedState(DataUrl(file))
  /\ activeTab \in AppTab
  /\ enhanceSettings \in
       IF activeTab = "enhance" THEN EditorSettings ELSE {DEFAULT_ENHANCE_SETTINGS}
  /\ idSettings \in
       IF activeTab = "id_photo" THEN IDPhotoSettings ELSE {DEFAULT_ID_SETTINGS}
  /\ restoreSettings \in
       IF activeTab = "restore" THEN RestorationSettings ELSE {DEFAULT_RESTORE_SETTINGS}
  /\ apiKey = "key"
  /\ readers = EmptyBag
  /\ inflight = EmptyBag
  /\ prev = EmptyImgState
  /\ lastOp = "onload"
  /\ resultTab = Null
  /\ download = NoDownload
  /\ resumed = None

PromptNext ==
  \/ handleProcess
  \/ callRejects
  \/ handleProcessResume

PromptSpec == PromptInit /\ [][PromptNext]_vars

TypeOK ==
  /\ imgState.isProcessing \in BOOLEAN
  /\ activeTab \in AppTab
  /\ apiKey \in ApiKeys
  /\ BagCardinality(readers) <= MaxReaders
  /\ BagCardinality(inflight) <= MaxInFlight

\* ---- properties ----
InFlight == BagToSet(inflight)
Outstanding == BagCardinality(inflight)

\* C1: at most one transformation request is outstanding in every reachable
\* state: handleProcess never starts while an earlier invocation has
\* neither completed nor failed.
C1_SingleOutstanding == Outstanding <= 1

\* C2: processedUrl becomes non-null only by the success branch of a
\* completed transformation, and it is null right after onload, Clear and
\* Try Again.
C2_ProcessedOnlyBySuccess ==
  /\ (lastOp # "processSucceeded") =>
        imgState.processedUrl \in {NullUrl, prev.processedUrl}
  /\ (lastOp \in {"onload", "resetImage", "tryAgain"}) =>
        imgState.processedUrl = NullUrl

\* a result was discarded by Try Again
C2_Witness ==
  /\ lastOp = "tryAgain"
  /\ prev.processedUrl # NullUrl
  /\ imgState.processedUrl = NullUrl

\* C3: isProcessing is true only while some started invocation has neither
\* completed nor failed.
C3_ProcessingImpliesOutstanding == imgState.isProcessing => Outstanding >= 1

\* a second request was started after an image load or Clear interrupted
\* the first one, and the flag is set
C3_Witness ==
  /\ imgState.isProcessing
  /\ Outstanding = 2
  /\ lastOp = "handleProcess"

\* C4: a file whose type does not start with 'image/' sets error to the
\* fixed message, leaves originalUrl, processedUrl and isProcessing as
\* they were, and starts no read.
C4_InvalidFile ==
  [][lastOp' = "invalidFile" =>
       /\ imgState'.error = MsgInvalidFile
       /\ imgState'.originalUrl = imgState.originalUrl
       /\ imgState'.processedUrl = imgState.processedUrl
       /\ imgState'.isProcessing = imgState.isProcessing
       /\ readers' = readers]_vars

\* a non-image file was dropped while a request was outstanding
C4_Witness ==
  /\ lastOp = "invalidFile"
  /\ imgState.error = MsgInvalidFile
  /\ imgState.isProcessing
  /\ imgState.originalUrl # NullUrl
  /\ Outstanding >= 1

\* C5: when an image file finishes loading the state is exactly
\* (the file's data URL, null, false, null).
C5_ValidLoad ==
  [][lastOp' = "onload" =>
       \E file \in BagToSet(readers) :
         /\ StartsWithImage(file.type)
         /\ imgState' = [originalUrl |-> DataUrl(file), processedUrl |-> NullUrl,
                         isProcessing |-> FALSE, error |-> Null]]_vars

\* a load replaced an original that had both a result and an error
C5_Witness ==
  /\ lastOp = "onload"
  /\ prev.error # Null
  /\ prev.processedUrl # NullUrl
  /\ prev.originalUrl \notin {NullUrl, imgState.originalUrl}
  /\ imgState.error = Null
  /\ imgState.processedUrl = NullUrl

\* the invocations whose continuation is about to run
Resuming == {r \in InFlight : r.pc = "resume"}

\* C6: with API_KEY absent or empty every invocation, in each mode, fails
\* with the fixed message before any outbound call, and that message is
\* the workspace error.
C6_MissingKey ==
  (~Truthy(apiKey)) =>
    /\ \A r \in InFlight :
         /\ r.calls = 0
         /\ r.pc = "resume"
         /\ InvokerOutcome(r) = Throw(MsgApiKeyMissing)
    /\ lastOp # "processSucceeded"
    /\ (lastOp = "processFailed") => imgState.error = MsgApiKeyMissing

\* a restore invocation failed on an empty key
C6_Witness ==
  /\ apiKey = ""
  /\ lastOp = "processFailed"
  /\ activeTab = "restore"
  /\ imgState.error = MsgApiKeyMissing
  /\ ~imgState.isProcessing

\* C7: with a key present every invocation makes exactly one outbound
\* call, whatever its outcome: when its continuation runs the invocation
\* is over and nothing is issued again.
C7_OneOutboundCall ==
  /\ [](Truthy(apiKey) => \A r \in InFlight : r.calls = 1)
  /\ [][\A r \in Resuming : inflight' = inflight (-) SetToBag({r})]_vars

\* a rejected call has been reported and no request is left
C7_Witness ==
  /\ Truthy(apiKey)
  /\ lastOp = "processFailed"
  /\ Outstanding = 0
  /\ imgState.error = "Quota exceeded"

\* the response has a first candidate with content
WellFormed(response) ==
  /\ IsSome(response.candidates)
  /\ Len(response.candidates[1]) > 0
  /\ IsSome(response.candidates[1][1].content)

\* the invocation ended in a call rejection or an extraction failure
Failed(r) ==
  \/ r.settle.kind = "rejected"
  \/ r.settle.kind = "resolved" /\ extractImageFromResponse(r.settle.response).threw

\* the message the remote side supplied with a rejection, if any
RemoteMessage(r) ==
  IF r.settle.kind = "rejected" THEN r.settle.error.message ELSE Undefined

\* the message of the error the invoker's catch block receives
CaughtMessage(r) ==
  IF r.settle.kind = "rejected" THEN r.settle.error.message
  ELSE extractImageFromResponse(r.settle.response).message

\* the generic message the claim names for each mode
ClaimedGeneric(tab) ==
  IF tab = "enhance" THEN "Failed to process image with AI"
  ELSE IF tab = "id_photo" THEN "Failed to create ID photo"
  ELSE "Failed to restore photo"

\* C8 as stated, on rejections and well-formed responses: a failed
\* transformation leaves isProcessing false and error equal to the
\* remote-supplied message when there is one and to the mode's generic
\* message otherwise; originalUrl and processedUrl stay.
C8_RemoteOrGeneric ==
  [][\A r \in Resuming :
       (Failed(r) /\ (r.settle.kind = "resolved" => WellFormed(r.settle.response))) =>
       imgState' = [imgState EXCEPT
                      !.isProcessing = FALSE,
                      !.error = OrElse(RemoteMessage(r), ClaimedGeneric(r.tab))]]_vars

\* C8 amended: the error is the message of the failure that was caught
\* (the remote-supplied one for a rejection, the extractor's own for an
\* extraction failure) when it is non-empty, and the mode's generic message
\* otherwise.
C8_CaughtOrGeneric ==
  [][\A r \in Resuming : Failed(r) =>
       /\ imgState' = [imgState EXCEPT
                         !.isProcessing = FALSE,
                         !.error = OrElse(CaughtMessage(r), ClaimedGeneric(r.tab))]
       /\ Truthy(imgState'.error)]_vars

\* a restore request rejected without a message shows the restore message
\* although another tab is active by then
C8_Witness ==
  /\ lastOp = "processFailed"
  /\ imgState.error = MsgRestoreFailed
  /\ activeTab # "restore"
  /\ ~imgState.isProcessing
  /\ imgState.originalUrl = prev.originalUrl
  /\ imgState.processedUrl = prev.processedUrl

\* C9: whenever error holds the message of a failed transformation the
\* Process trigger is available, and starting handleProcess leaves error
\* null and isProcessing true.
C9_RetryAvailable ==
  /\ (imgState.error \notin {Null, MsgInvalidFile}) => ProcessEnabled
  /\ (lastOp = "handleProcess") => imgState.error = Null /\ imgState.isProcessing

\* the segments of the first candidate, none when it has no list of parts
Segments(response) ==
  IF /\ IsSome(response.candidates)
     /\ Len(response.candidates[1]) > 0
     /\ IsSome(response.candidates[1][1].content)
     /\ IsSome(response.candidates[1][1].content[1].parts)
  THEN response.candidates[1][1].content[1].parts[1]
  ELSE << >>

NoImageSegment(response) ==
  \A i \in DOMAIN Segments(response) :
    LET part == Segments(response)[i] IN
      ~(IsSome(part.inlineData) /\ part.inlineData[1].data # "")

\* C10: a response without a segment carrying inline image bytes makes
\* extractImageFromResponse fail with 'No image data returned from
\* Gemini.', and that message reaches the workspace error.
C10_NoImageMessage ==
  \A r \in Resuming :
    (r.settle.kind = "resolved" /\ NoImageSegment(r.settle.response)) =>
       /\ extractImageFromResponse(r.settle.response) = Throw(MsgNoImage)
       /\ FailureState(imgState, InvokerOutcome(r).message).error = MsgNoImage

\* the positions of the segments that carry non-empty inline image data
ImageSegments(response) ==
  {i \in DOMAIN Segments(response) :
     /\ IsSome(Segments(response)[i].inlineData)
     /\ Segments(response)[i].inlineData[1].data # ""}

FirstOf(positions) == CHOOSE i \in positions : \A j \in positions : i <= j

\* the payload of the first segment that carries image data
FirstPayload(response) ==
  Segments(response)[FirstOf(ImageSegments(response))].inlineData[1].data

\* C11: when the first candidate has a list of segments, the extractor
\* returns 'data:image/png;base64,' followed by the data of the first
\* segment with non-empty inline image data, whatever precedes or follows it
\* and whatever media type the segment declares.
C11_FirstImageSegment ==
  \A r \in Resuming :
    (r.settle.kind = "resolved" /\ ImageSegments(r.settle.response) # {}) =>
      extractImageFromResponse(r.settle.response) =
        Return(<<"data:", "image", "/", "png", ";base64,",
                 FirstPayload(r.settle.response)>>)

\* a text segment and two jpeg segments came back and the first image is shown
C11_Witness ==
  /\ lastOp = "processSucceeded"
  /\ imgState.processedUrl = <<"data:", "image", "/", "png", ";base64,", "BBBB">>

\* C12: for every image the file input accepts, the request's image part
\* carries the data URL without its 'data:<type>;base64,' header as data and
\* the declared media type as mimeType.
C12_ImagePart ==
  \A r \in InFlight :
    (r.calls = 1) =>
      /\ r.request.data = << r.img[6] >>
      /\ r.request.mimeType = r.img[2] \o "/" \o r.img[4]

\* C13: the textual encoding the extractor returns for a single segment
\* with payload B gives back exactly B when its header is stripped, and
\* declares image/png.
C13_RoundTrip ==
  \A r \in Resuming :
    (r.settle.kind = "resolved" /\ Cardinality(ImageSegments(r.settle.response)) = 1) =>
      LET out == extractImageFromResponse(r.settle.response) IN
        /\ ~out.threw
        /\ cleanBase64(out.value) = << FirstPayload(r.settle.response) >>
        /\ getMimeType(out.value) = "image/png"

\* a response with one image segment is about to be extracted
C13_Witness ==
  \E r \in Resuming :
    /\ r.settle.kind = "resolved"
    /\ Len(Segments(r.settle.response)) = 1
    /\ ImageSegments(r.settle.response) = {1}
    /\ FirstPayload(r.settle.response) = "AAAA"

\* the enhance requests outstanding
EnhanceRequests == {r \in InFlight : r.tab = "enhance" /\ r.calls = 1}
IDPhotoRequests == {r \in InFlight : r.tab = "id_photo" /\ r.calls = 1}
RestoreRequests == {r \in InFlight : r.tab = "restore" /\ r.calls = 1}

\* C14: in enhance mode the quality tier alone fixes model and config: the
\* top tier gives the higher-capability model with imageSize '4K', the two
\* others the faster model with an empty config.
C14_QualityDecides ==
  \A r \in EnhanceRequests :
    IF enhanceSettings.quality = "8K ULTRA HDR"
    THEN /\ r.request.model = "gemini-3-pro-image-preview"
         /\ r.request.config = [imageSize |-> "4K", aspectRatio |-> Undefined]
    ELSE /\ enhanceSettings.quality \in {"2K (Fast)", "4K (Sharp)"}
         /\ r.request.model = "gemini-2.5-flash-image"
         /\ r.request.config = [imageSize |-> Undefined, aspectRatio |-> Undefined]

\* a top-tier request in upscale-only mode with every flag off
C14_Witness ==
  /\ EnhanceRequests # {}
  /\ enhanceSettings.quality = Q_8K
  /\ enhanceSettings.mode = UPSCALE_ONLY
  /\ ~enhanceSettings.hyperRealism
  /\ ~enhanceSettings.colorize
  /\ enhanceSettings.sharpenLevel = SharpenMax

RemoveAt(seq, k) == SubSeq(seq, 1, k - 1) \o SubSeq(seq, k + 1, Len(seq))

\* long is short with exactly one element inserted
OneInserted(short, long) ==
  /\ Len(long) = Len(short) + 1
  /\ \E k \in DOMAIN long : RemoveAt(long, k) = short

\* C15 as stated: in every processing mode, turning hyperRealism on and
\* nothing else gives the previous clause sequence with exactly one clause
\* inserted.
C15_HyperAddsOneClause ==
  \A r \in EnhanceRequests :
    (~enhanceSettings.hyperRealism) =>
      OneInserted(r.request.text,
                  EnhancePrompt([enhanceSettings EXCEPT !.hyperRealism = TRUE]))

\* C15 amended: in 'Enhance & Restore' mode turning hyperRealism on inserts
\* exactly one clause, the hyper-realism clause right after the restoration
\* clause; in 'Upscale Only' mode the instruction does not change.
C15_HyperAddsOneClauseInRestoreMode ==
  \A r \in EnhanceRequests :
    (~enhanceSettings.hyperRealism) =>
      LET toggled == EnhancePrompt([enhanceSettings EXCEPT !.hyperRealism = TRUE]) IN
        IF enhanceSettings.mode = "Enhance & Restore"
        THEN /\ OneInserted(r.request.text, toggled)
             /\ toggled[3] = HyperRealismClause
             /\ RemoveAt(toggled, 3) = r.request.text
        ELSE toggled = r.request.text

\* an enhance-and-restore request without hyper-realism, other flags on
C15_Witness ==
  /\ EnhanceRequests # {}
  /\ enhanceSettings.mode = ENHANCE_RESTORE
  /\ ~enhanceSettings.hyperRealism
  /\ enhanceSettings.colorize
  /\ enhanceSettings.makeup

\* C16: in ID-photo mode aspectRatio is '1:1' exactly for the 5x5 size and
\* '3:4' for the four others, the model is the faster one, and the crop
\* text says 'Square' exactly when the ratio is '1:1'.
C16_AspectRatio ==
  \A r \in IDPhotoRequests :
    /\ r.request.model = "gemini-2.5-flash-image"
    /\ r.request.config.aspectRatio =
         IF idSettings.size = "5x5 cm (Visa)" THEN "1:1" ELSE "3:4"
    /\ r.request.config.imageSize = Undefined
    /\ r.request.text[2] =
         IF r.request.config.aspectRatio = "1:1"
         THEN "1. CROP & COMPOSITION: Crop the image to a Square format. "
         ELSE "1. CROP & COMPOSITION: Crop the image to a Vertical Portrait format. "

\* a square request with non-default background, quality and flags
C16_Witness ==
  /\ IDPhotoRequests # {}
  /\ idSettings.size = SIZE_5x5
  /\ idSettings.backgroundColor = "Red"
  /\ idSettings.quality = Q_8K
  /\ ~idSettings.removeBlemishes

\* C17: in restore mode every request uses the higher-capability model with
\* imageSize '4K', and another quality tier would change nothing of it.
C17_RestoreIgnoresQuality ==
  \A r \in RestoreRequests :
    /\ r.request.model = "gemini-3-pro-image-preview"
    /\ r.request.config = [imageSize |-> "4K", aspectRatio |-> Undefined]
    /\ \A q \in EnhancementQuality :
         RestoreRequest(r.img, [restoreSettings EXCEPT !.quality = q]) = r.request

\* a restore request at the fastest tier
C17_Witness ==
  /\ RestoreRequests # {}
  /\ restoreSettings.quality = Q_2K
  /\ ~restoreSettings.sharpenArtifacts

\* the positions of the color-handling clauses in an instruction
ColorPositions(text) ==
  {i \in DOMAIN text : text[i] \in {ColorizationClause, KeepColorClause}}

\* C18: a restore instruction has exactly one color-handling clause, the
\* colorization clause iff colorRestoration, between the detail-recovery
\* section and the quality section, which keep their places.
C18_OneColorClause ==
  \A r \in RestoreRequests :
    LET text == r.request.text
        n == Len(text) IN
      /\ ColorPositions(text) = {n - 1}
      /\ text[n - 1] = IF restoreSettings.colorRestoration
                        THEN ColorizationClause ELSE KeepColorClause
      /\ text[1] = RestoreOpening
      /\ text[2] = DamageClause(restoreSettings.scratchReduction)
      /\ text[3] = DetailClause
      /\ n = IF restoreSettings.faceRestoration THEN 6 ELSE 5
      /\ restoreSettings.faceRestoration => text[4] = FaceClause
      /\ text[n] = RestoreQualityClause(restoreSettings.denoiseLevel)

\* requests with colorRestoration on, with and without face restoration,
\* are covered by the formula; this one keeps the original colors
C18_Witness ==
  /\ RestoreRequests # {}
  /\ ~restoreSettings.colorRestoration
  /\ restoreSettings.faceRestoration

\* the tail every enhance instruction ends with
EnhanceTail ==
  << QualityClause(enhanceSettings.quality),
     SharpenClause(enhanceSettings.sharpenLevel), ResolutionClause >>

\* C19 as stated: the enhance instruction is the opening, then the
\* restoration clause with the hyper-realism and colorize clauses by their
\* flags, or the upscale-only clause, then the quality, sharpen and
\* resolution clauses, and nothing else.
C19_EnhanceClauses ==
  \A r \in EnhanceRequests :
    r.request.text =
      << EnhanceOpening >>
      \o (IF enhanceSettings.mode = "Enhance & Restore"
           THEN << RestoreDetailsClause >>
                \o (IF enhanceSettings.hyperRealism THEN << HyperRealismClause >> ELSE << >>)
                \o (IF enhanceSettings.colorize THEN << ColorizeClause >> ELSE << >>)
           ELSE << UpscaleOnlyClause >>)
      \o EnhanceTail

\* C19 amended: as stated, with the subtle-enhancement (makeup) clause
\* between the hyper-realism and the colorize clause iff makeup is set.
C19_EnhanceClausesWithMakeup ==
  \A r \in EnhanceRequests :
    r.request.text =
      << EnhanceOpening >>
      \o (IF enhanceSettings.mode = "Enhance & Restore"
           THEN << RestoreDetailsClause >>
                \o (IF enhanceSettings.hyperRealism THEN << HyperRealismClause >> ELSE << >>)
                \o (IF enhanceSettings.makeup THEN << MakeupClause >> ELSE << >>)
                \o (IF enhanceSettings.colorize THEN << ColorizeClause >> ELSE << >>)
           ELSE << UpscaleOnlyClause >>)
      \o EnhanceTail

\* an enhance-and-restore request with the makeup flag set and the two others off
C19_Witness ==
  /\ EnhanceRequests # {}
  /\ enhanceSettings.mode = ENHANCE_RESTORE
  /\ ~enhanceSettings.hyperRealism
  /\ enhanceSettings.makeup
  /\ ~enhanceSettings.colorize

\* the suffix the claim names for each mode
ClaimedSuffix(tab) ==
  IF tab = "enhance" THEN "Enhanced"
  ELSE IF tab = "id_photo" THEN "ID_Photo"
  ELSE "Restored_Gemini3Pro"

\* C20: a saved file is named after the mode of the transformation that
\* produced the result, and saving needs a result.
C20_DownloadNamesProducer ==
  (lastOp = "handleDownload") =>
    /\ imgState.processedUrl # NullUrl
    /\ download = <<"LongRau_", ClaimedSuffix(resultTab), "_", "Date.now()", ".png">>

\* C21: a result on display was produced by a transformation invoked on the
\* original that is loaded now: an original is loaded, the invocation whose
\* success just wrote the result was started on it, and any other step
\* found the same result with the same original.
C21_ResultOfLoadedOriginal ==
  (imgState.processedUrl # NullUrl) =>
    /\ imgState.originalUrl # NullUrl
    /\ IF lastOp = "processSucceeded"
       THEN /\ IsSome(resumed)
            /\ resumed[1].img = imgState.originalUrl
       ELSE /\ prev.processedUrl = imgState.processedUrl
            /\ prev.originalUrl = imgState.originalUrl

\* an invocation of this tab on this image has started and not finished
Started(tab, img) == \E r \in InFlight : r.tab = tab /\ r.img = img

\* the continuation of such an invocation has just run: the flag is off and
\* the result is on display or the error is set
Completed(tab, img) ==
  /\ IsSome(resumed)
  /\ resumed[1].tab = tab
  /\ resumed[1].img = img
  /\ ~imgState.isProcessing
  /\ \/ lastOp = "processSucceeded" /\ imgState.processedUrl # NullUrl
     \/ lastOp = "processFailed" /\ imgState.error # Null

\* C22: when every external call settles, every started transformation
\* leads to a state with isProcessing = false in which its success has set
\* processedUrl or its failure has set error, and isProcessing = true never
\* lasts forever, whatever loads, Clear, Try Again and tab switches happen.
C22_EveryTransformationEnds ==
  /\ \A tab \in AppTab : \A img \in LoadableUrls :
       Started(tab, img) ~> Completed(tab, img)
  /\ imgState.isProcessing ~> ~imgState.isProcessing

\* a transformation ended with success after the workspace had been cleared
\* or loaded anew under it
C22_Witness ==
  /\ lastOp = "processSucceeded"
  /\ IsSome(resumed)
  /\ ~imgState.isProcessing
  /\ imgState.processedUrl # NullUrl
  /\ resumed[1].img # imgState.originalUrl

\* C23: settings without a prompt rule do not reach the request: another
\* retouchLevel or upscaleLevel in enhance mode, another sharpenArtifacts
\* in restore mode, another quality tier in ID-photo mode give the same
\* instruction text, model and config for the same image.
C23_UnusedSettings ==
  /\ \A r \in EnhanceRequests :
       \A level \in SliderMin..SliderMax :
         /\ EnhanceRequest(r.img, [enhanceSettings EXCEPT !.retouchLevel = level])
              = r.request
         /\ EnhanceRequest(r.img, [enhanceSettings EXCEPT !.upscaleLevel = level])
              = r.request
  /\ \A r \in RestoreRequests :
       \A flag \in BOOLEAN :
         RestoreRequest(r.img, [restoreSettings EXCEPT !.sharpenArtifacts = flag])
           = r.request
  /\ \A r \in IDPhotoRequests :
       \A q \in EnhancementQuality :
         IDPhotoRequest(r.img, [idSettings EXCEPT !.quality = q]) = r.request

\* an ID-photo request at the top tier is outstanding
C23_Witness ==
  /\ IDPhotoRequests # {}
  /\ idSettings.quality = Q_8K
  /\ idSettings.size = SIZE_35x45
  /\ idSettings.fixLighting
====
